---- MODULE Spec2Model ----
(***************************************************************************)
(* The score-update pipeline of the scoreboard service: the handler        *)
(* completeAction (src/src/problem4/README.md, section 1.2), the tables    *)
(* it writes (src/src/problem6/ARCHITECTURE.md, section 6.1), the score    *)
(* cache and the leaderboard broadcast.                                    *)
(*                                                                         *)
(* Every `await` of the handler is a point where another request may run   *)
(* (other requests of the same server, and other servers: README           *)
(* "DISTRIBUTED SYSTEMS"), so every awaited call is one action.  Time is    *)
(* counted in seconds; the handler's 5000 ms window is Cooldown = 5.       *)
(*                                                                         *)
(* The other programs of the repository are specified on their own, each   *)
(* with its own variable: detectAnomalies (SpecScorer), the sockets of the *)
(* subscribers (SpecQueue), rateLimitMiddleware (SpecLimiter), the three   *)
(* sum_to_n functions (SpecSumming) and the resource controllers of        *)
(* problem 5 (SpecCrud).                                                   *)
(***************************************************************************)
EXTENDS Integers, Sequences, FiniteSets, TLC

\* ---------------------------------------------------------------- bounds
MaxSubs == 2   \* submissions received in one behaviour
MaxTime == 5   \* the clock stops here

\* ------------------------------------------------------- program constants
Cooldown == 5      \* `Date.now() - lastCompletion.completedAt < 5000`

Users       == {"u1", "u2"}
Requests    == {"r1", "r2"}
Subscribers == {"s1", "s2"}
\* The invocations of completeAction that can be in progress at once.  A
\* handler that has returned keeps the record of its submission until it
\* takes the next one.
Handlers    == {1, 2}

\* The rows of the actions table (score_reward, cooldown_seconds).  a1 is
\* the action of the worked scenario (reward 50, cooldown 5 s); a2 has a
\* cooldown other than five seconds; "zz" is an id no row has.
ActionTable ==
  [a1 |-> [scoreReward |-> 50, cooldownSeconds |-> 5],
   a2 |-> [scoreReward |-> 20, cooldownSeconds |-> 2]]
KnownActions == DOMAIN ActionTable
ActionIds    == KnownActions \cup {"zz"}

VARIABLES
  now,          \* the clock, in seconds
  total_score,  \* users.total_score, committed
  completions,  \* user_action_completions, committed rows
  audit,        \* score_audit_logs, committed rows
  rowLock,      \* per user: the handler whose transaction holds the row
                \* lock taken by SELECT ... FOR UPDATE, 0 when free
  cacheScore,   \* redis user:{userId}:score, -1 when the key is absent
  emitted,      \* the events passed to io.emit, in order
  connected,    \* per subscriber: its socket is open
  inbox,        \* per subscriber: the events its socket was handed
  received,     \* the number of submissions received so far
  sub,          \* per handler: its submission, position and locals
  scorer,       \* one evaluation of detectAnomalies: inputs, position,
                \* locals and result
  delivered,    \* per subscriber: how many of the events its socket was
                \* handed have gone out to the client
  limiter,      \* rateLimitMiddleware for one user: the clock, the key
                \* ratelimit:{userId} and the requests under way
  summing,      \* one run of sum_to_n_a, sum_to_n_b and sum_to_n_c on the
                \* same n: position, locals, call stack and results
  crud          \* the resource service: the table resource, its id
                \* sequence and the controller calls under way

db   == <<total_score, completions, audit, rowLock>>
hub  == <<emitted, connected, inbox>>
\* The state of completeAction and of what it reads and writes.
pipeline == <<now, db, cacheScore, hub, received, sub>>
\* The state of the functions checked on their own.
aside == <<scorer, delivered, limiter, summing, crud>>
\* What an evaluation of detectAnomalies leaves alone.
notScorer == <<pipeline, delivered, limiter, summing, crud>>
\* What the sockets leave alone.
notQueue == <<pipeline, scorer, limiter, summing, crud>>
\* What rateLimitMiddleware leaves alone.
notLimiter == <<pipeline, scorer, delivered, summing, crud>>
\* What the sum_to_n functions leave alone.
notSumming == <<pipeline, scorer, delivered, limiter, crud>>
\* What the resource controllers leave alone.
notCrud == <<pipeline, scorer, delivered, limiter, summing>>
vars == <<pipeline, aside>>

\* ------------------------------------------------------------------ helpers
RECURSIVE SumEarned(_)
SumEarned(S) ==
  IF S = {} THEN 0
  ELSE LET r == CHOOSE x \in S : TRUE IN r.earned + SumEarned(S \ {r})

Max(S) == CHOOSE x \in S : \A y \in S : y <= x

CompletionsOf(u) == {c \in completions : c.user = u}

\* What the model calls a user's version: the users table has no version
\* column; every committed mutation adds exactly one score_audit_logs row.
version(u) == Cardinality({r \in audit : r.user = u})

\* UserActionCompletion.findOne({where: {userId, actionId},
\*                               order: {completedAt: "DESC"}}):
\* completedAt of the latest row, -1 when there is none.
LastCompletionAt(u, a) ==
  LET rows == {c \in completions : c.user = u /\ c.action = a} IN
  IF rows = {} THEN -1 ELSE Max({c.at : c \in rows})

\* if (lastCompletion && Date.now() - lastCompletion.completedAt < 5000)
OnCooldown(last, t) == last # -1 /\ t - last < Cooldown

\* nextAvailableAt: new Date(lastCompletion.completedAt.getTime() + 5000)
NextAvailableAt(last) == last + Cooldown

\* A submission: the request (user, action, req), the handler's position
\* and locals, and what is remembered of it once the handler has returned:
\*   id        the submission's number, which stands for generateUUID()
\*   prior     the handlers whose submission had finished when this one
\*             arrived
\*   cooled    at the cooldown test, the action's own cooldown_seconds had
\*             passed since the latest completion found (or none was found)
\*   committed its transaction committed
\*   failed    where a call threw: "pre" before the try block, "tx" inside
\*             the transaction, "scorer" in isSuspiciousJump, "post" after
\*             the commit, "" nowhere
\*   outcome   the response's status, "none" when no response was sent
\*   retryAt   nextAvailableAt of a 409
\*   newScore, flagged   newScore and flaggedForReview of a 200
Idle ==
  [pc |-> "idle", id |-> 0, user |-> "", action |-> "", req |-> "",
   prior |-> {}, cooled |-> TRUE, completedAt |-> -1, oldScore |-> 0,
   newScore |-> 0, flagged |-> FALSE, committed |-> FALSE, failed |-> "",
   outcome |-> "", retryAt |-> -1]

Arrived  == {i \in Handlers : sub[i].pc # "idle"}
Finished == {i \in Handlers : sub[i].pc = "done"}

Reward(i) == ActionTable[sub[i].action].scoreReward

\* The handler returns: the response (if any) is recorded, the locals go.
Finish(i, out) ==
  [sub EXCEPT ![i].pc = "done", ![i].outcome = out,
              ![i].completedAt = -1, ![i].oldScore = 0,
              ![i].newScore = IF out = "200" THEN @ ELSE 0,
              ![i].flagged = IF out = "200" THEN @ ELSE FALSE]

InitPipeline ==
  /\ now = 0
  /\ total_score = [u \in Users |-> 0]
  /\ completions = {}
  /\ audit = {}
  /\ rowLock = [u \in Users |-> 0]
  /\ cacheScore = [u \in Users |-> -1]
  /\ emitted = <<>>
  /\ connected = [s \in Subscribers |-> TRUE]
  /\ inbox = [s \in Subscribers |-> <<>>]
  /\ received = 0
  /\ sub = [i \in Handlers |-> Idle]

\* No evaluation of detectAnomalies is under way.
ScorerOff ==
  [pc |-> "off", history |-> <<>>, reward |-> 0, ageHours |-> 0,
   recent |-> 0, lastIP |-> "", reqIP |-> "", anomalyScore |-> 0,
   reasons |-> {}, isSuspicious |-> FALSE]

\* Nothing is waiting in a socket.
NoneDelivered == [s \in Subscribers |-> 0]

\* ------------------------------------------------- rateLimitMiddleware
MaxRequests == 11   \* requests of the user received in one behaviour

Limit  == 10   \* const limit = 10
Window == 60   \* redis.expire(key, 60), in seconds

\* The instants at which something happens, in seconds: the start, just
\* after it, and the instants around the end of a window.
Instants == {0, 1, 59, 60, 61, 121}
\* The invocations of the middleware that can be in progress at once.
LimitSlots == {1, 2}

\* One invocation: its position, its local `count`, whether a redis call
\* threw, and how it ended: "next" (passed to the handler), "429", or "none"
\* (the process stopped).
LimitIdle == [pc |-> "idle", count |-> 0, failed |-> FALSE, out |-> ""]

\* The key is absent (count 0) and has no expiry (ttl -1); no window has
\* started.  Of the window that the latest first increment started:
\*   winStart  its start
\*   admitted  the requests counted in it that the limit test passed
\*   through   the requests made in it that reached the handler
LimiterStart ==
  [now |-> 0, count |-> 0, ttl |-> -1, winStart |-> -1, admitted |-> 0,
   through |-> 0, arrived |-> 0, req |-> [k \in LimitSlots |-> LimitIdle]]

\* ------------------------------------------------------------- sum_to_n
MaxN     == 8   \* the arguments are -MaxN .. MaxN
MaxStack == 6   \* the frames of sum_to_n_b the call stack has room for

\* No function is running.  i and sum are the locals of sum_to_n_a; frames
\* holds, innermost last, the n of every call of sum_to_n_b that is waiting
\* for its recursive call; arg is the n of the call being entered; calls
\* counts the recursive calls made; a, b, c are the values returned and
\* thrown tells that sum_to_n_b ended with a RangeError instead.
SummingOff ==
  [pc |-> "off", n |-> 0, i |-> 0, sum |-> 0, frames |-> <<>>, arg |-> 0,
   calls |-> 0, a |-> 0, b |-> 0, c |-> 0, thrown |-> FALSE]

\* --------------------------------------------------- resource service
MaxCalls == 3   \* controller calls received in one behaviour

\* A field missing from a request body (undefined) and a null.
Absent == "absent"
Null   == "null"
Names        == {"n1", "n2"}
Descriptions == {"d1", "d2"}
\* req.params.id, a string, and Number(id); 0 stands for NaN, which equals
\* no id.
IdParams == {"1", "01", "2", "x"}
NumberOf == [p \in IdParams |->
              IF p \in {"1", "01"} THEN 1 ELSE IF p = "2" THEN 2 ELSE 0]
\* The controller calls that can be in progress at once.
Calls == {1, 2}

NoEntity == [id |-> 0, name |-> Absent, description |-> Absent]
\* One controller call: the controller (op), req.params.id, the name and
\* description of req.body (or req.query.name), the entity it loaded, and
\* the status it answered.
CallIdle ==
  [pc |-> "idle", op |-> "", id |-> "", name |-> Absent,
   description |-> Absent, entity |-> NoEntity, out |-> ""]

\* synchronize: true creates an empty table; ids are generated from 1.
CrudStart ==
  [rows |-> {}, nextId |-> 1, received |-> 0,
   call |-> [k \in Calls |-> CallIdle]]

\* ---------------------------------------------------------------- Init
Init ==
  /\ InitPipeline
  /\ scorer = ScorerOff
  /\ delivered = NoneDelivered
  /\ limiter = LimiterStart
  /\ summing = SummingOff
  /\ crud = CrudStart

\* ------------------------------------------------------------- actions
\* The clock is read by the cooldown test and by NOW() only, and a tick
\* commutes with every other step: time passes when a reader is about to
\* run.  Only differences of times are ever tested: the clock starts with
\* the first timestamp taken.
ClockReaders == {i \in Handlers : sub[i].pc \in {"cooldown", "insert"}}
Stamped ==
  completions # {} \/ \E i \in Handlers : sub[i].completedAt # -1

Tick ==
  /\ now < MaxTime
  /\ ClockReaders # {}
  /\ Stamped
  /\ now' = now + 1
  /\ UNCHANGED <<db, cacheScore, hub, received, sub, aside>>

\* A request reaches completeAction: userId from the JWT, actionId from the
\* body; the request id is the client's idempotency key, which the handler
\* does not read.  It is taken by a handler that never ran, or, when all
\* have run, by one that has returned.  Users and request ids are
\* interchangeable: the first submission is u1's r1.
Receive(i, u, a, r) ==
  /\ received < MaxSubs
  /\ \/ sub[i].pc = "idle" /\ \A j \in Handlers : j < i => sub[j].pc # "idle"
     \/ sub[i].pc = "done" /\ \A j \in Handlers : sub[j].pc # "idle"
  /\ received = 0 => u = "u1" /\ r = "r1"
  /\ received' = received + 1
  /\ sub' = [j \in Handlers |->
               IF j = i
               THEN [Idle EXCEPT !.pc = "find", !.id = received + 1,
                                 !.user = u, !.action = a, !.req = r,
                                 !.prior = Finished \ {i}]
               ELSE [sub[j] EXCEPT !.prior = @ \ {i}]]
  /\ UNCHANGED <<now, db, cacheScore, hub, aside>>

\* A lookup that records the failed attempt in score_audit_logs before it
\* answers 400: what FindAction is checked against.
FindActionLogsFailure(i) ==
  /\ sub[i].pc = "find"
  /\ \/ /\ sub[i].action \notin KnownActions
        /\ sub' = Finish(i, "400")
        /\ audit' = audit \cup
             {[id |-> sub[i].id, user |-> sub[i].user, delta |-> 0,
               before |-> total_score[sub[i].user],
               after |-> total_score[sub[i].user], suspicious |-> FALSE]}
        /\ UNCHANGED <<now, total_score, completions, rowLock, cacheScore,
                       hub, received, aside>>
     \/ /\ sub[i].action \in KnownActions
        /\ sub' = [sub EXCEPT ![i].pc = "cooldown"]
        /\ UNCHANGED <<now, db, cacheScore, hub, received, aside>>
     \/ /\ sub' = [Finish(i, "none") EXCEPT ![i].failed = "pre"]
        /\ UNCHANGED <<now, db, cacheScore, hub, received, aside>>

\* const action = await Action.findById(actionId);
\* if (!action) return res.status(400)...   A rejected lookup is outside
\* the try block: the handler ends without a response.
FindAction(i) ==
  /\ sub[i].pc = "find"
  /\ \/ /\ sub[i].action \notin KnownActions
        /\ sub' = Finish(i, "400")
     \/ /\ sub[i].action \in KnownActions
        /\ sub' = [sub EXCEPT ![i].pc = "cooldown"]
     \/ sub' = [Finish(i, "none") EXCEPT ![i].failed = "pre"]
  /\ UNCHANGED <<now, db, cacheScore, hub, received, aside>>

\* The cooldown lookup and test; it runs before the transaction starts and
\* sees committed rows only.
CheckCooldown(i) ==
  /\ sub[i].pc = "cooldown"
  /\ LET last == LastCompletionAt(sub[i].user, sub[i].action)
         c    == last = -1 \/
                 now - last >= ActionTable[sub[i].action].cooldownSeconds IN
     \/ /\ OnCooldown(last, now)
        /\ sub' = [Finish(i, "409") EXCEPT ![i].cooled = c,
                                           ![i].retryAt = NextAvailableAt(last)]
     \/ /\ ~OnCooldown(last, now)
        /\ sub' = [sub EXCEPT ![i].pc = "begin", ![i].cooled = c]
     \/ sub' = [Finish(i, "none") EXCEPT ![i].failed = "pre"]
  /\ UNCHANGED <<now, db, cacheScore, hub, received, aside>>

\* createQueryRunner(); await connect(); await startTransaction();
\* also outside the try block.
BeginTx(i) ==
  /\ sub[i].pc = "begin"
  /\ \/ sub' = [sub EXCEPT ![i].pc = "lock"]
     \/ sub' = [Finish(i, "none") EXCEPT ![i].failed = "pre"]
  /\ UNCHANGED <<now, db, cacheScore, hub, received, aside>>

\* A rollback that does not undo the UPDATE (the statement ran outside the
\* transaction): what Rollback is checked against.
RollbackKeepsUpdate(i) ==
  /\ sub' = [Finish(i, "500") EXCEPT ![i].failed = "tx"]
  /\ rowLock' = [u \in Users |-> IF rowLock[u] = i THEN 0 ELSE rowLock[u]]
  /\ total_score' =
       IF sub[i].pc \in {"insert", "audit", "commit"}
       THEN [total_score EXCEPT ![sub[i].user] = sub[i].newScore]
       ELSE total_score
  /\ UNCHANGED <<now, completions, audit, cacheScore, hub, received, aside>>

\* catch (err) { await rollbackTransaction(); res.status(500)... }
\* finally { release() }: the transaction's writes are dropped and its row
\* lock is freed.
Rollback(i) ==
  /\ sub' = [Finish(i, "500") EXCEPT ![i].failed = "tx"]
  /\ rowLock' = [u \in Users |-> IF rowLock[u] = i THEN 0 ELSE rowLock[u]]
  /\ UNCHANGED <<now, total_score, completions, audit, cacheScore, hub,
                 received, aside>>

\* A SELECT without FOR UPDATE never waits: what LockFree is checked against.
NoRowLock(i) == TRUE

\* The row lock of SELECT ... FOR UPDATE: the statement returns only when no
\* other transaction holds the user's row.
LockFree(i) == rowLock[sub[i].user] = 0

\* isSuspiciousJump throws: the call is inside the try block, after the row
\* lock was granted; the catch block rolls back and answers 500.
ScorerFailure(i) ==
  /\ LockFree(i)
  /\ sub' = [Finish(i, "500") EXCEPT ![i].failed = "scorer"]
  /\ UNCHANGED <<now, db, cacheScore, hub, received, aside>>

\* A fraud check that turns a suspicious submission away instead of
\* flagging it: what LockUser is checked against.
LockUserBlocking(i) ==
  /\ sub[i].pc = "lock"
  /\ \/ /\ LockFree(i)
        /\ sub' = [sub EXCEPT ![i].pc = "update",
                      ![i].oldScore = total_score[sub[i].user],
                      ![i].newScore = total_score[sub[i].user] + Reward(i),
                      ![i].flagged = FALSE]
        /\ rowLock' = [rowLock EXCEPT ![sub[i].user] = i]
        /\ UNCHANGED <<now, total_score, completions, audit, cacheScore,
                       hub, received, aside>>
     \/ /\ LockFree(i)
        /\ sub' = Finish(i, "403")
        /\ UNCHANGED <<now, db, cacheScore, hub, received, aside>>
     \/ ScorerFailure(i)
     \/ Rollback(i)

\* SELECT * FROM users WHERE id = $1 FOR UPDATE; oldScore, newScore and the
\* (synchronous) isSuspiciousJump follow without an await.  isSuspiciousJump
\* is not defined in the repository: its answer is any boolean, or it
\* throws.
LockUser(i) ==
  /\ sub[i].pc = "lock"
  /\ \/ /\ LockFree(i)
        /\ \E f \in BOOLEAN :
             sub' = [sub EXCEPT ![i].pc = "update",
                       ![i].oldScore = total_score[sub[i].user],
                       ![i].newScore = total_score[sub[i].user] + Reward(i),
                       ![i].flagged = f]
        /\ rowLock' = [rowLock EXCEPT ![sub[i].user] = i]
        /\ UNCHANGED <<now, total_score, completions, audit, cacheScore,
                       hub, received, aside>>
     \/ ScorerFailure(i)
     \/ Rollback(i)

\* An UPDATE that other sessions see at once (run on the pool, outside the
\* transaction): what UpdateScore is checked against.
UpdateScoreAutocommit(i) ==
  /\ sub[i].pc = "update"
  /\ \/ /\ sub' = [sub EXCEPT ![i].pc = "insert"]
        /\ total_score' = [total_score EXCEPT ![sub[i].user] = sub[i].newScore]
        /\ UNCHANGED <<now, completions, audit, rowLock, cacheScore, hub,
                       received, aside>>
     \/ Rollback(i)

\* UPDATE users SET total_score = $1 ...  (buffered in the transaction)
UpdateScore(i) ==
  /\ sub[i].pc = "update"
  /\ \/ /\ sub' = [sub EXCEPT ![i].pc = "insert"]
        /\ UNCHANGED <<now, db, cacheScore, hub, received, aside>>
     \/ Rollback(i)

\* INSERT INTO user_action_completions ... completed_at NOW()
\* The table's UNIQUE(user_id, action_id, completed_at) makes the statement
\* throw on an equal timestamp, which is the Rollback branch; the column
\* resolves microseconds, so two rows of one second need not collide.
InsertCompletion(i) ==
  /\ sub[i].pc = "insert"
  /\ \/ /\ sub' = [sub EXCEPT ![i].pc = "audit", ![i].completedAt = now]
        /\ UNCHANGED <<now, db, cacheScore, hub, received, aside>>
     \/ Rollback(i)

\* INSERT INTO score_audit_logs ...
InsertAudit(i) ==
  /\ sub[i].pc = "audit"
  /\ \/ /\ sub' = [sub EXCEPT ![i].pc = "commit"]
        /\ UNCHANGED <<now, db, cacheScore, hub, received, aside>>
     \/ Rollback(i)

\* The rows a committing transaction makes visible.  (CompletionRowOfTotal
\* logs the new total as score_earned: what CompletionRow is checked
\* against.)
CommittedScore(i) == sub[i].newScore
CompletionRowOfTotal(i) ==
  [id |-> sub[i].id, user |-> sub[i].user, action |-> sub[i].action,
   earned |-> sub[i].newScore, at |-> sub[i].completedAt]
CompletionRow(i) ==
  [id |-> sub[i].id, user |-> sub[i].user, action |-> sub[i].action,
   earned |-> Reward(i), at |-> sub[i].completedAt]
AuditRow(i) ==
  [id |-> sub[i].id, user |-> sub[i].user, delta |-> Reward(i),
   before |-> sub[i].oldScore, after |-> sub[i].newScore,
   suspicious |-> sub[i].flagged]

\* await queryRunner.commitTransaction(): the three writes become visible
\* together and the row lock is freed.
Commit(i) ==
  /\ sub[i].pc = "commit"
  /\ \/ /\ total_score' = [total_score EXCEPT ![sub[i].user] = CommittedScore(i)]
        /\ completions' = completions \cup {CompletionRow(i)}
        /\ audit' = audit \cup {AuditRow(i)}
        /\ rowLock' = [rowLock EXCEPT ![sub[i].user] = 0]
        /\ sub' = [sub EXCEPT ![i].pc = "cachedel", ![i].committed = TRUE,
                              ![i].completedAt = -1]
        /\ UNCHANGED <<now, cacheScore, hub, received, aside>>
     \/ Rollback(i)

\* A redis call that throws after the commit is caught by the same catch
\* block: rollbackTransaction() has no transaction left to undo; the
\* handler answers 500, or nothing when rollbackTransaction itself throws.
AfterCommitFailure(i) ==
  /\ \E out \in {"500", "none"} :
       sub' = [Finish(i, out) EXCEPT ![i].failed = "post"]
  /\ UNCHANGED <<now, db, cacheScore, hub, received, aside>>

\* await redis.del("leaderboard:top10");
CacheDel(i) ==
  /\ sub[i].pc = "cachedel"
  /\ \/ /\ sub' = [sub EXCEPT ![i].pc = "cacheset"]
        /\ UNCHANGED <<now, db, cacheScore, hub, received, aside>>
     \/ AfterCommitFailure(i)

\* await redis.set(`user:${userId}:score`, newScore, "EX", 60);
CacheSet(i) ==
  /\ sub[i].pc = "cacheset"
  /\ \/ /\ cacheScore' = [cacheScore EXCEPT ![sub[i].user] = sub[i].newScore]
        /\ sub' = [sub EXCEPT ![i].pc = "emit"]
        /\ UNCHANGED <<now, db, hub, received, aside>>
     \/ AfterCommitFailure(i)

\* The payload of io.emit("leaderboard:update", ...); its timestamp, which
\* nothing reads, is left out.
Event(i) ==
  [user |-> sub[i].user, newScore |-> sub[i].newScore,
   scoreAdded |-> Reward(i)]

\* io.emit(...) hands the event to every open socket; res.status(200)
\* follows without an await.
Emit(i) ==
  /\ sub[i].pc = "emit"
  /\ emitted' = Append(emitted, Event(i))
  /\ inbox' = [s \in Subscribers |->
                 IF connected[s] THEN Append(inbox[s], Event(i)) ELSE inbox[s]]
  /\ sub' = Finish(i, "200")
  /\ UNCHANGED <<now, db, cacheScore, connected, received, aside>>

\* The key user:{userId}:score expires (EX 60).
Expire(u) ==
  /\ cacheScore[u] # -1
  /\ cacheScore' = [cacheScore EXCEPT ![u] = -1]
  /\ UNCHANGED <<now, db, hub, received, sub, aside>>

\* A subscriber's connection ends.
Disconnect(s) ==
  /\ connected[s]
  /\ connected' = [connected EXCEPT ![s] = FALSE]
  /\ UNCHANGED <<now, db, cacheScore, emitted, inbox, received, sub, aside>>

Step(i) ==
  \/ FindAction(i)
  \/ CheckCooldown(i)
  \/ BeginTx(i)
  \/ LockUser(i)
  \/ UpdateScore(i)
  \/ InsertCompletion(i)
  \/ InsertAudit(i)
  \/ Commit(i)
  \/ CacheDel(i)
  \/ CacheSet(i)
  \/ Emit(i)

\* The pipeline alone: every key lives and every subscriber stays.
Next ==
  \/ Tick
  \/ \E i \in Handlers, u \in Users, a \in ActionIds, r \in Requests :
       Receive(i, u, a, r)
  \/ \E i \in Handlers : Step(i)

Spec == Init /\ [][Next]_vars

\* The pipeline with subscribers that come and go.
NextHub ==
  \/ Next
  \/ \E s \in Subscribers : Disconnect(s)

SpecHub == Init /\ [][NextHub]_vars

\* The events handed to a subscriber's socket and not yet sent to the
\* client, oldest first.
Queue(s) == SubSeq(inbox[s], delivered[s] + 1, Len(inbox[s]))

\* The socket of a subscriber sends its oldest waiting event to the client
\* ("Messages Emitted (Server -> Client)"): each client takes its events at
\* its own pace.
Deliver(s) ==
  /\ delivered[s] < Len(inbox[s])
  /\ delivered' = [delivered EXCEPT ![s] = @ + 1]
  /\ UNCHANGED notQueue

\* The pipeline with clients that read at their own pace.
NextQueue ==
  \/ Next
  \/ \E s \in Subscribers : Deliver(s)

SpecQueue == Init /\ [][NextQueue]_vars

\* The pipeline with expiring cache keys.
NextCache ==
  \/ Next
  \/ \E u \in Users : Expire(u)

SpecCache == Init /\ [][NextCache]_vars

\* ------------------------------------------------------ detectAnomalies
\* detectAnomalies(userId, newScore, actionReward), checked on its own: the
\* answers of the stores it asks are inputs, fixed when the call starts.
MaxHistory == 2   \* rows returned by getUserScoreHistory(userId, 10)

HistoryRewards == {20, 21}
ScoreHistories == UNION {[1..n -> HistoryRewards] : n \in 0..MaxHistory}
ActionRewards  == {50, 100, 103}
AgesHours      == {0, 23, 24, 48}     \* Date.now() - user.createdAt
ActionCounts   == {0, 20, 21}         \* getActionCount(userId, 300)
ClientIPs      == {"ip1", "ip2", "ip3"}
\* geolocate(ip)
Country == [ip1 |-> "US", ip2 |-> "US", ip3 |-> "SG"]

RECURSIVE SumSeq(_)
SumSeq(q) == IF q = <<>> THEN 0 ELSE Head(q) + SumSeq(Tail(q))

\* let anomalyScore = 0; const reasons = [];   lastIP "" stands for no
\* earlier request (a falsy answer of getLastClientIP).
InitScorer ==
  /\ InitPipeline
  /\ delivered = NoneDelivered
  /\ limiter = LimiterStart
  /\ summing = SummingOff
  /\ crud = CrudStart
  /\ scorer \in
       {[ScorerOff EXCEPT !.pc = "check1", !.history = h, !.reward = r,
                          !.ageHours = g, !.recent = c, !.lastIP = l,
                          !.reqIP = q] :
          h \in ScoreHistories, r \in ActionRewards, g \in AgesHours,
          c \in ActionCounts, l \in ClientIPs \cup {""}, q \in ClientIPs}

\* An awaited call rejects: detectAnomalies rejects, no result.
AwaitRejects ==
  /\ scorer' = [scorer EXCEPT !.pc = "failed"]
  /\ UNCHANGED notScorer

\* Check 1: avgReward = sum / length; if (actionReward > avgReward * 5).
\* With no history avgReward is 0/0 = NaN and the comparison is false; with
\* history the comparison is that of actionReward * length with sum * 5.
Check1 ==
  /\ scorer.pc = "check1"
  /\ \/ LET h    == scorer.history
             jump == Len(h) > 0 /\ scorer.reward * Len(h) > SumSeq(h) * 5 IN
        /\ scorer' = [scorer EXCEPT !.pc = "check2",
                        !.anomalyScore = IF jump THEN @ + 30 ELSE @,
                        !.reasons = IF jump THEN @ \cup {"Exceptional reward"}
                                    ELSE @]
        /\ UNCHANGED notScorer
     \/ AwaitRejects

\* Check 2: if (Date.now() - user.createdAt < 24 * 60 * 60 * 1000), in
\* hours.
Check2 ==
  /\ scorer.pc = "check2"
  /\ \/ LET young == scorer.ageHours < 24 IN
        /\ scorer' = [scorer EXCEPT !.pc = "check3",
                        !.anomalyScore = IF young THEN @ + 20 ELSE @,
                        !.reasons = IF young THEN @ \cup {"New account"}
                                    ELSE @]
        /\ UNCHANGED notScorer
     \/ AwaitRejects

\* A test that counts the threshold itself as too many: what Check3 is
\* checked against.
Check3AtThreshold ==
  /\ scorer.pc = "check3"
  /\ \/ LET busy == scorer.recent >= 20 IN
        /\ scorer' = [scorer EXCEPT !.pc = "check4",
                        !.anomalyScore = IF busy THEN @ + 40 ELSE @,
                        !.reasons = IF busy THEN @ \cup {"High action frequency"}
                                    ELSE @]
        /\ UNCHANGED notScorer
     \/ AwaitRejects

\* Check 3: if (actionsLast5Min > 20)
Check3 ==
  /\ scorer.pc = "check3"
  /\ \/ LET busy == scorer.recent > 20 IN
        /\ scorer' = [scorer EXCEPT !.pc = "check4",
                        !.anomalyScore = IF busy THEN @ + 40 ELSE @,
                        !.reasons = IF busy THEN @ \cup {"High action frequency"}
                                    ELSE @]
        /\ UNCHANGED notScorer
     \/ AwaitRejects

\* Check 4: if (lastIP && lastIP !== req.ip) and the two addresses
\* geolocate to different countries.  (req is not a parameter of
\* detectAnomalies; req.ip is read as the address of the request being
\* judged.)
Check4 ==
  /\ scorer.pc = "check4"
  /\ \/ LET moved == /\ scorer.lastIP # ""
                      /\ scorer.lastIP # scorer.reqIP
                      /\ Country[scorer.lastIP] # Country[scorer.reqIP] IN
        /\ scorer' = [scorer EXCEPT !.pc = "return",
                        !.anomalyScore = IF moved THEN @ + 25 ELSE @,
                        !.reasons = IF moved THEN @ \cup {"Geographic change"}
                                    ELSE @]
        /\ UNCHANGED notScorer
     \/ AwaitRejects

\* return { isSuspicious: anomalyScore > 70, anomalyScore, reasons }
Return ==
  /\ scorer.pc = "return"
  /\ scorer' = [scorer EXCEPT !.pc = "done",
                              !.isSuspicious = scorer.anomalyScore > 70]
  /\ UNCHANGED notScorer

NextScorer == Check1 \/ Check2 \/ Check3 \/ Check4 \/ Return

SpecScorer == InitScorer /\ [][NextScorer]_vars

\* ------------------------------------------- rateLimitMiddleware, steps
\* Time passes to the next instant; redis removes a key whose expiry has
\* come.
LimitTick ==
  /\ \E t \in Instants :
       /\ t > limiter.now
       /\ \A x \in Instants : x > limiter.now => t <= x
       /\ LET gone == limiter.ttl # -1 /\ t >= limiter.ttl IN
          limiter' = [limiter EXCEPT !.now = t,
                        !.count = IF gone THEN 0 ELSE @,
                        !.ttl = IF gone THEN -1 ELSE @]
  /\ UNCHANGED notLimiter

\* A request of the user reaches the middleware; it is given the first
\* invocation that is not under way.
LimitReceive(k) ==
  /\ limiter.req[k].pc \in {"idle", "done"}
  /\ \A j \in LimitSlots : j < k => limiter.req[j].pc \notin {"idle", "done"}
  /\ limiter.arrived < MaxRequests
  /\ limiter' = [limiter EXCEPT !.arrived = @ + 1,
                   !.req[k] = [LimitIdle EXCEPT !.pc = "incr"]]
  /\ UNCHANGED notLimiter

\* The request was made inside the window that the latest first increment
\* started.
InWindow(l) == l.winStart # -1 /\ l.now < l.winStart + Window

\* A limit test that lets the first request over the limit pass: what
\* OverLimit is checked against.
OverLimitByTwo(count) == count > Limit + 1

\* if (count > limit)
OverLimit(count) == count > Limit

\* if (count > limit) return res.status(429)...;
\* res.setHeader("X-RateLimit-Remaining", limit - count); next();
\* applied to the limiter l for the invocation k whose count is c.
Decide(l, k, c) ==
  IF OverLimit(c)
  THEN [l EXCEPT !.req[k] = [pc |-> "done", count |-> c, failed |-> FALSE,
                             out |-> "429"]]
  ELSE [l EXCEPT !.req[k] = [pc |-> "done", count |-> c, failed |-> FALSE,
                             out |-> "next"],
                 !.admitted = IF InWindow(l) \/ c = 1 THEN @ + 1 ELSE @,
                 !.through = IF InWindow(l) \/ c = 1 THEN @ + 1 ELSE @]

\* A catch block that turns the request away: what FailOpen is checked
\* against.
FailClosed(l, k) ==
  [l EXCEPT !.req[k] = [pc |-> "done", count |-> l.req[k].count,
                        failed |-> TRUE, out |-> "429"]]

\* catch (err) { console.error(...); next(); }
FailOpen(l, k) ==
  [l EXCEPT !.req[k] = [pc |-> "done", count |-> l.req[k].count,
                        failed |-> TRUE, out |-> "next"],
            !.through = IF InWindow(l) THEN @ + 1 ELSE @]

\* The first increment of a key starts a window.
Opened(l) ==
  [l EXCEPT !.count = 1, !.winStart = l.now, !.admitted = 0, !.through = 0]

\* const count = await redis.incr(key): an absent key counts from 0 and the
\* new key has no expiry.  With count 1 the expire call follows; otherwise
\* the limit test follows without an await.  A call that throws may or may
\* not have been carried out by redis.
Incr(k) ==
  /\ limiter.req[k].pc = "incr"
  /\ LET c == limiter.count + 1
         counted == IF c = 1 THEN Opened(limiter)
                    ELSE [limiter EXCEPT !.count = c] IN
     \/ limiter' = IF c = 1
                   THEN [counted EXCEPT !.req[k].pc = "expire",
                                        !.req[k].count = 1]
                   ELSE Decide(counted, k, c)
     \/ \E l \in {limiter, counted} : limiter' = FailOpen(l, k)
  /\ UNCHANGED notLimiter

\* if (count === 1) await redis.expire(key, 60); the limit test follows
\* without an await.  A call that throws may or may not have been carried
\* out; the process may also stop before the call is made.
ExpireCall(k) ==
  /\ limiter.req[k].pc = "expire"
  /\ LET timed == [limiter EXCEPT !.ttl = limiter.now + Window] IN
     \/ limiter' = Decide(timed, k, 1)
     \/ \E l \in {limiter, timed} : limiter' = FailOpen(l, k)
     \/ limiter' = [limiter EXCEPT !.req[k] =
                      [pc |-> "done", count |-> 1, failed |-> FALSE,
                       out |-> "none"]]
  /\ UNCHANGED notLimiter

NextLimiter ==
  \/ LimitTick
  \/ \E k \in LimitSlots : LimitReceive(k) \/ Incr(k) \/ ExpireCall(k)

SpecLimiter == Init /\ [][NextLimiter]_vars

\* ------------------------------------------------------ sum_to_n, steps
\* n = Math.trunc(n): an integer is its own integer part.
Trunc(n) == n

\* The three functions are run one after the other on the same integer.
InitSumming ==
  /\ InitPipeline
  /\ scorer = ScorerOff
  /\ delivered = NoneDelivered
  /\ limiter = LimiterStart
  /\ crud = CrudStart
  /\ summing \in {[SummingOff EXCEPT !.pc = "a", !.n = n] : n \in -MaxN..MaxN}

\* sum_to_n_a, entry: let sum = 0; the loop starts at 1 (n >= 1) or at n.
EnterA ==
  /\ summing.pc = "a"
  /\ LET n == Trunc(summing.n) IN
     summing' = [summing EXCEPT !.pc = "a_loop", !.sum = 0,
                                !.i = IF n >= 1 THEN 1 ELSE n]
  /\ UNCHANGED notSumming

\* for (let i = 1; i <= n; i++) sum += i;   (n >= 1)
\* for (let i = n; i <= 1; i++) sum += i;   (n < 1)
\* one test of the loop condition, with the body and i++ or the return.
LoopA ==
  /\ summing.pc = "a_loop"
  /\ LET n    == Trunc(summing.n)
         last == IF n >= 1 THEN n ELSE 1 IN
     summing' = IF summing.i <= last
                THEN [summing EXCEPT !.sum = @ + summing.i, !.i = @ + 1]
                ELSE [summing EXCEPT !.pc = "b", !.a = summing.sum,
                                     !.i = 0, !.sum = 0]
  /\ UNCHANGED notSumming

\* The outer call of sum_to_n_b.
EnterB ==
  /\ summing.pc = "b"
  /\ summing' = [summing EXCEPT !.pc = "b_call", !.arg = Trunc(summing.n)]
  /\ UNCHANGED notSumming

\* The call stack has no room for one more frame of sum_to_n_b ("Risk of
\* stack overflow for large |n|").
StackFull(frames) == Len(frames) >= MaxStack

\* One call of sum_to_n_b is entered:
\*   if (n === 1) return 1;
\*   if (n > 1) return n + sum_to_n_b(n - 1);
\*   return n + sum_to_n_b(n + 1);
\* A call for which the stack has no room throws a RangeError, which no
\* frame catches.
CallB ==
  /\ summing.pc = "b_call"
  /\ LET n == summing.arg IN
     summing' =
       IF StackFull(summing.frames)
       THEN [summing EXCEPT !.pc = "c", !.thrown = TRUE, !.frames = <<>>,
                            !.arg = 0]
       ELSE IF n = 1
       THEN [summing EXCEPT !.pc = "b_return", !.b = 1, !.arg = 0]
       ELSE [summing EXCEPT !.frames = Append(@, n), !.calls = @ + 1,
                            !.arg = IF n > 1 THEN n - 1 ELSE n + 1]
  /\ UNCHANGED notSumming

\* The innermost waiting call returns n + (the value of its recursive
\* call); the outer call's value is the result.
ReturnB ==
  /\ summing.pc = "b_return"
  /\ LET d == Len(summing.frames) IN
     summing' =
       IF d = 0 THEN [summing EXCEPT !.pc = "c"]
       ELSE [summing EXCEPT !.b = summing.frames[d] + @,
                            !.frames = SubSeq(@, 1, d - 1)]
  /\ UNCHANGED notSumming

\* sum_to_n_c:
\*   if (n >= 1) return (n * (n + 1)) / 2;
\*   const count = 2 - n; return ((n + 1) * count) / 2;
\* Of two integers that differ by one, or add up to three, one is even: the
\* division by two is exact.
FormulaC ==
  /\ summing.pc = "c"
  /\ LET n     == Trunc(summing.n)
         count == 2 - n IN
     summing' = [summing EXCEPT !.pc = "done",
                   !.c = IF n >= 1 THEN (n * (n + 1)) \div 2
                         ELSE ((n + 1) * count) \div 2]
  /\ UNCHANGED notSumming

NextSumming == EnterA \/ LoopA \/ EnterB \/ CallB \/ ReturnB \/ FormulaC

SpecSumming == InitSumming /\ [][NextSumming]_vars

\* -------------------------------------------- resource service, steps
\* The inputs of the five controllers: op, req.params.id, name, description.
CreateInputs == {<<"create", "", n, d>> : n \in {"n1", Absent},
                                          d \in {"d1", Absent}}
ListInputs   == {<<"list", "", n, Absent>> : n \in {"n1", Absent}}
GetInputs    == {<<"get", p, Absent, Absent>> : p \in IdParams}
UpdateInputs == {<<"update", p, n, d>> : p \in IdParams,
                                         n \in {"n2", Null, Absent},
                                         d \in {"d2", Absent}}
DeleteInputs == {<<"delete", p, Absent, Absent>> : p \in IdParams}

\* A request reaches its controller (router.post / get / put / delete); it
\* is given the first call that is not under way.  createResource starts
\* with Resource.create(...), the others with a lookup.
CrudReceive(k, in) ==
  /\ crud.call[k].pc \in {"idle", "done"}
  /\ \A j \in Calls : j < k => crud.call[j].pc \notin {"idle", "done"}
  /\ crud.received < MaxCalls
  /\ crud' = [crud EXCEPT !.received = @ + 1,
                !.call[k] = [CallIdle EXCEPT
                               !.pc = IF in[1] = "create" THEN "save"
                                      ELSE "find",
                               !.op = in[1], !.id = in[2], !.name = in[3],
                               !.description = in[4]]]
  /\ UNCHANGED notCrud

\* The controller answers and returns; its locals go.
Answer(k, status) ==
  [CallIdle EXCEPT !.pc = "done", !.op = crud.call[k].op,
                   !.id = crud.call[k].id, !.out = status]

\* catch (err) { res.status(500).json({error: "... failed", ...}) }
CrudFailure(k) ==
  /\ crud' = [crud EXCEPT !.call[k] = Answer(k, "500")]
  /\ UNCHANGED notCrud

\* Resource.findOneBy({ id: Number(id) }): the rows with that id.
Matching(p) == {r \in crud.rows : r.id = NumberOf[p]}

\* a ?? b
Coalesce(a, b) == IF a \in {Absent, Null} THEN b ELSE a

\* A lookup that finds nothing and creates the resource instead: what
\* NotFound is checked against.
NotFoundUpserts(k) ==
  [crud EXCEPT !.call[k] = Answer(k, "200"),
               !.rows = @ \cup {[id |-> crud.nextId, name |-> "n1",
                                  description |-> Null]},
               !.nextId = @ + 1]

\* if (!resource) return res.status(404).json({ error: "Not found" });
NotFound(k) ==
  [crud EXCEPT !.call[k] = Answer(k, "404")]

\* listResources: await Resource.find(...); res.json(resources).
\* The others: await Resource.findOneBy(...), then, without an await,
\* the 404, the answer of getResource, the assignments of updateResource
\*   resource.name = name ?? resource.name;
\*   resource.description = description ?? resource.description;
\* before its save, or the remove of deleteResource.
Find(k) ==
  /\ crud.call[k].pc = "find"
  /\ \/ LET c == crud.call[k] IN
        /\ crud' =
             IF c.op = "list" THEN [crud EXCEPT !.call[k] = Answer(k, "200")]
             ELSE IF Matching(c.id) = {} THEN NotFound(k)
             ELSE LET r == CHOOSE x \in Matching(c.id) : TRUE IN
               CASE c.op = "get" ->
                      [crud EXCEPT !.call[k] = Answer(k, "200")]
                 [] c.op = "update" ->
                      [crud EXCEPT !.call[k].pc = "save",
                         !.call[k].entity =
                            [id |-> r.id,
                             name |-> Coalesce(c.name, r.name),
                             description |->
                               Coalesce(c.description, r.description)]]
                 [] OTHER ->
                      [crud EXCEPT !.call[k].pc = "remove",
                                   !.call[k].entity = r]
        /\ UNCHANGED notCrud
     \/ CrudFailure(k)

\* await resource.save().
\* createResource: the entity has no id: a row is inserted with the next
\* generated id, a missing description is stored as NULL, and a missing
\* name violates NOT NULL; the answer is 201.
\* updateResource: the entity has an id: the row with that id is made equal
\* to the entity, and is inserted when no row has the id any more; the
\* answer is 200.
Save(k) ==
  /\ crud.call[k].pc = "save"
  /\ LET c == crud.call[k] IN
     \/ /\ c.op = "create"
        /\ c.name # Absent
        /\ crud' = [crud EXCEPT !.call[k] = Answer(k, "201"),
                      !.rows = @ \cup {[id |-> crud.nextId, name |-> c.name,
                                         description |->
                                           Coalesce(c.description, Null)]},
                      !.nextId = @ + 1]
        /\ UNCHANGED notCrud
     \/ /\ c.op = "update"
        /\ crud' = [crud EXCEPT !.call[k] = Answer(k, "200"),
                      !.rows = {r \in @ : r.id # c.entity.id}
                                 \cup {c.entity}]
        /\ UNCHANGED notCrud
     \/ CrudFailure(k)

\* await resource.remove(); res.json({ message: "Deleted successfully" })
Remove(k) ==
  /\ crud.call[k].pc = "remove"
  /\ \/ /\ crud' = [crud EXCEPT !.call[k] = Answer(k, "200"),
                      !.rows = {r \in @ : r.id # crud.call[k].entity.id}]
        /\ UNCHANGED notCrud
     \/ CrudFailure(k)

NextCrud ==
  \/ \E k \in Calls :
       \E in \in CreateInputs \cup ListInputs \cup GetInputs
                   \cup UpdateInputs \cup DeleteInputs :
         CrudReceive(k, in)
  \/ \E k \in Calls : Find(k) \/ Save(k) \/ Remove(k)

SpecCrud == Init /\ [][NextCrud]_vars

\* ------------------------------------------------- the leaderboard read
\* What one read sees: the committed users and completion rows of a single
\* instant.  The repository has no code for the read; that it takes a
\* snapshot is the specification's read/write ordering rule.
Snapshot == [score |-> total_score, rows |-> completions]

\* GET /leaderboard/top10: "the top 10 users by score"; "users with same
\* score are ordered by completion time" (first to reach the score wins).
\* The time a user reached the current score is the time of the user's
\* latest completion (users.updated_at is set by the same transaction), -1
\* for a user who has none.
ReachedAt(u) ==
  LET rows == {c \in Snapshot.rows : c.user = u} IN
  IF rows = {} THEN -1 ELSE Max({c.at : c \in rows})

\* One entry of the response: userId, score, actionsCompleted (the rank is
\* the entry's position).
Entry(u) ==
  [user |-> u, score |-> Snapshot.score[u],
   actionsCompleted |-> Cardinality({c \in Snapshot.rows : c.user = u})]

\* An ordering that ranks the lower score first: what Ahead is checked
\* against.
AheadAscending(u, v) ==
  \/ Snapshot.score[u] < Snapshot.score[v]
  \/ Snapshot.score[u] = Snapshot.score[v] /\ ReachedAt(u) < ReachedAt(v)

\* An ordering by score alone: what Ahead is checked against.
AheadByScore(u, v) == Snapshot.score[u] > Snapshot.score[v]

\* ORDER BY total_score DESC, then completion time ASC: u is ranked ahead
\* of v.
Ahead(u, v) ==
  \/ Snapshot.score[u] > Snapshot.score[v]
  \/ Snapshot.score[u] = Snapshot.score[v] /\ ReachedAt(u) < ReachedAt(v)

\* The orders in which the rows of the users table can lie in the heap;
\* rows the ordering does not separate come out in heap order.
HeapOrders ==
  {h \in [1..Cardinality(Users) -> Users] :
     \A k, l \in DOMAIN h : k # l => h[k] # h[l]}

\* u put into the ranked sequence s: before the first user it is ahead of.
RankInsert(u, s) ==
  LET ks == {k \in 1..Len(s) : Ahead(u, s[k])}
      at == IF ks = {} THEN Len(s) + 1
            ELSE CHOOSE k \in ks : \A l \in ks : k <= l IN
  SubSeq(s, 1, at - 1) \o <<u>> \o SubSeq(s, at, Len(s))

RECURSIVE Ranked(_, _)
Ranked(h, k) == IF k = 0 THEN <<>> ELSE RankInsert(h[k], Ranked(h, k - 1))

\* topN(n): the first n entries of the ranking, read in one statement from
\* the committed rows.
TopN(n, h) ==
  LET r == Ranked(h, Len(h))
      m == IF n < Len(r) THEN n ELSE Len(r) IN
  [k \in 1..m |-> Entry(r[k])]

\* ===================================================================
\* Properties
\* ===================================================================
ArrivedOf(u) == {i \in Arrived : sub[i].user = u}
Valid(i)    == sub[i].action \in KnownActions
SameRequest(i, j) ==
  sub[i].user = sub[j].user /\ sub[i].req = sub[j].req
Identical(i, j) == SameRequest(i, j) /\ sub[i].action = sub[j].action
\* Neither had finished when the other arrived.
Concurrent(i, j) ==
  /\ i # j /\ i \in Arrived /\ j \in Arrived
  /\ i \notin sub[j].prior /\ j \notin sub[i].prior

RECURSIVE SumRewards(_)
SumRewards(S) ==
  IF S = {} THEN 0
  ELSE LET i == CHOOSE x \in S : TRUE IN Reward(i) + SumRewards(S \ {i})

EventsOf(u) == {k \in 1..Len(emitted) : emitted[k].user = u}

\* The handler records hold every submission that wrote a row of user u.
OnRecord(u) ==
  {c.id : c \in CompletionsOf(u)} \subseteq {sub[i].id : i \in ArrivedOf(u)}

\* C1 -- No lost updates.  For every user: once all of the user's
\* submissions have finished, if they were for pairwise distinct valid
\* actions and each was answered 200, the stored score is the sum of their
\* rewards (the initial score is 0) and the version (the number of audit
\* rows) is their number, whatever the interleaving was.
NoLostUpdates ==
  \A u \in Users :
    LET S == ArrivedOf(u) IN
    ( /\ OnRecord(u)
      /\ S \subseteq Finished
      /\ \A i \in S : Valid(i) /\ sub[i].outcome = "200"
      /\ \A i, j \in S : i # j => sub[i].action # sub[j].action )
    => /\ total_score[u] = SumRewards(S)
       /\ version(u) = Cardinality(S)

\* Two submissions of one user for distinct actions ran concurrently, the
\* second waited for the first's row lock, and both were answered 200.
NoLostUpdatesWitness ==
  \E i, j \in Finished :
    /\ Concurrent(i, j) /\ sub[i].user = sub[j].user
    /\ sub[i].action # sub[j].action
    /\ sub[i].outcome = "200" /\ sub[j].outcome = "200"
    /\ sub[j].newScore = Reward(i) + Reward(j)

\* C2 -- Idempotence (the part that decides it): a submission that arrives
\* after a submission with the same (userID, requestID) and the same action
\* was applied is not applied a second time: it leaves score and version
\* unchanged.
IdempotentResubmission ==
  \A i, j \in Arrived :
    (i \in sub[j].prior /\ Identical(i, j) /\ sub[i].committed)
    => ~sub[j].committed

\* C3 -- The gate is an atomic test-and-set: of two identical submissions
\* (same user, action and requestID) handled concurrently, at most one
\* passes the cooldown check and has its reward applied.
AtomicGate ==
  \A i, j \in Arrived :
    (Concurrent(i, j) /\ Identical(i, j))
    => ~(sub[i].committed /\ sub[j].committed)

\* C4 -- Cooldown enforcement for the action's own cooldownSeconds c: a
\* submission tested less than c seconds after the user's latest completion
\* of the action is answered 409 and applies nothing; one tested c seconds
\* or more after it is not answered 409.
CooldownOfAction ==
  \A i \in Finished :
    Valid(i) =>
      /\ ~sub[i].cooled => (sub[i].outcome = "409" /\ ~sub[i].committed)
      /\ sub[i].cooled => sub[i].outcome # "409"

PostCommitFailureHarmless ==
  \A i \in Finished :
    sub[i].committed => sub[i].outcome = "200"

\* C7 -- Score conservation: in every state each user's stored score is
\* the sum of score_earned over the user's completion rows (the initial
\* score is 0), and each completion row has its audit row.
ScoreConservation ==
  \A u \in Users :
    /\ total_score[u] = SumEarned(CompletionsOf(u))
    /\ version(u) = Cardinality(CompletionsOf(u))

\* One user has two completion rows, and two submissions that ran
\* concurrently both committed.
ScoreConservationWitness ==
  /\ \E u \in Users : Cardinality(CompletionsOf(u)) = 2
  /\ \E i, j \in Arrived : Concurrent(i, j) /\ sub[i].committed /\ sub[j].committed

\* C8 -- Each applied mutation raises the user's version by one, and an
\* event carries, at the moment it is emitted, the score the store holds for
\* its user.
EventMatchesStore ==
  [][ /\ \A u \in Users :
           total_score'[u] # total_score[u] => version(u)' = version(u) + 1
      /\ Len(emitted') > Len(emitted) =>
           LET e == emitted'[Len(emitted')] IN
           e.newScore = total_score'[e.user] ]_vars

\* C9 -- Exactly one event per committed submission and none otherwise:
\* for every user none of whose submissions is between its commit and its
\* emit, the number of emitted events equals the number of committed
\* completions.
AfterCommit == {"cachedel", "cacheset", "emit"}
OneEventPerCommit ==
  \A u \in Users :
    (\A i \in ArrivedOf(u) : sub[i].pc \notin AfterCommit)
    => Cardinality(EventsOf(u)) = Cardinality(CompletionsOf(u))

\* C10 -- Per-user event order: of two events of one user handed to a
\* subscriber, the one of the earlier mutation (the smaller score: rewards
\* are positive) comes first.
PerUserEventOrder ==
  \A s \in Subscribers :
    \A k, l \in 1..Len(inbox[s]) :
      (k < l /\ inbox[s][k].user = inbox[s][l].user)
      => inbox[s][k].newScore < inbox[s][l].newScore

\* Every user is in exactly one entry of the board b.
EachUserOnce(b) ==
  /\ Len(b) = Cardinality(Users)
  /\ \A u \in Users : Cardinality({k \in 1..Len(b) : b[k].user = u}) = 1

InFlight ==
  {i \in Handlers :
     sub[i].pc \in {"begin", "lock", "update", "insert", "audit", "commit",
                    "cachedel", "cacheset", "emit"}}

\* The completion rows of u written by submissions no longer in flight.
Settled(u) ==
  {c \in CompletionsOf(u) : \A i \in InFlight : c.id # sub[i].id}

\* u's score and number of completions once the updates Q (in flight) are
\* applied on top of the settled ones.
ScoreAfter(u, Q) ==
  SumEarned(Settled(u)) + SumRewards({i \in Q : sub[i].user = u})
CountAfter(u, Q) ==
  Cardinality(Settled(u)) + Cardinality({i \in Q : sub[i].user = u})

NeverBlocks ==
  \A i \in Finished :
    (Valid(i) /\ sub[i].outcome # "409" /\ sub[i].failed = "")
    => /\ sub[i].outcome = "200"
       /\ sub[i].committed
       /\ \E c \in completions : c.id = sub[i].id /\ c.earned = Reward(i)
       /\ \E r \in audit :
            /\ r.id = sub[i].id
            /\ r.delta = Reward(i)
            /\ r.after = r.before + Reward(i)
            /\ r.suspicious = sub[i].flagged

\* A submission judged suspicious was answered 200 with flaggedForReview
\* and its reward is the user's score.
NeverBlocksWitness ==
  \E i \in Finished :
    /\ sub[i].flagged /\ sub[i].outcome = "200"
    /\ total_score[sub[i].user] = Reward(i)
    /\ \E r \in audit : r.id = sub[i].id /\ r.suspicious

\* C17 -- A failure inside the fraud check never rejects or aborts the
\* submission: a submission whose fraud check threw is processed as not
\* suspicious, its reward is applied and it is answered 200.
ScorerFailureTolerated ==
  \A i \in Finished :
    sub[i].failed = "scorer"
    => sub[i].outcome = "200" /\ sub[i].committed /\ ~sub[i].flagged

\* What the claimed rule adds for each check, from the inputs alone.
Weight(cond, w) == IF cond THEN w ELSE 0
RewardJump ==
  /\ Len(scorer.history) > 0
  /\ scorer.reward * Len(scorer.history) > 5 * SumSeq(scorer.history)
YoungAccount == scorer.ageHours < 24
TooFrequent  == scorer.recent > 20
OriginMoved  ==
  scorer.lastIP # "" /\ Country[scorer.lastIP] # Country[scorer.reqIP]

\* C15 -- The suspicion score returned by detectAnomalies is always in
\* 0..100, for every combination of triggered checks.
ScoreWithinScale ==
  scorer.pc = "done" => scorer.anomalyScore \in 0..100

UnknownActionNoEffect ==
  [][ \A i \in Handlers :
        ( /\ sub[i].pc = "find" /\ sub[i].action \notin KnownActions
          /\ sub'[i].pc # "find" )
        => /\ sub'[i].pc = "done"
           /\ sub'[i].failed = "" => sub'[i].outcome = "400"
           /\ ~sub'[i].committed
           /\ UNCHANGED <<db, cacheScore, hub>> ]_vars

\* A user with an applied completion submitted an unknown action id and was
\* answered 400; the score is still the one reward.
UnknownActionNoEffectWitness ==
  \E i, j \in Finished :
    /\ ~Valid(i) /\ sub[i].outcome = "400"
    /\ j \in sub[i].prior /\ sub[j].user = sub[i].user
    /\ sub[j].outcome = "200"
    /\ total_score[sub[i].user] = Reward(j)
    /\ version(sub[i].user) = 1

\* C19 -- Every submission ends with one definite outcome on every path,
\* the failing ones included: no handler returns without having sent a
\* response.
DefiniteOutcome ==
  \A i \in Finished : sub[i].outcome # "none"

\* A submission waiting at SELECT ... FOR UPDATE for a row that another
\* transaction holds.
WaitingForLock(i) ==
  /\ i \in Arrived
  /\ sub[i].pc = "lock"
  /\ ~LockFree(i)

\* The handler gives up its wait: it ends with the retryable outcome Busy
\* and leaves the store, the cache and the event stream as they were.
EndsBusy(i) ==
  /\ Step(i)
  /\ sub'[i].pc = "done"
  /\ sub'[i].outcome = "busy"
  /\ UNCHANGED <<db, cacheScore, hub>>

\* C20 -- Bounded lock wait: a submission that waits for its user's lock
\* while another submission of the same user holds it can end its wait with
\* the retryable outcome Busy and no state change, so that it never has to
\* wait for as long as the holder keeps the lock.
BoundedLockWait ==
  \A i \in Handlers : WaitingForLock(i) => ENABLED EndsBusy(i)

\* C21 -- The cooldown rejection carries the cooldown expiry: the
\* nextAvailableAt of a 409 is the time of the user's latest completion of
\* the action plus that action's own cooldown_seconds.
RetryAfterIsExpiry ==
  [][\A i \in Handlers :
       (sub[i].pc = "cooldown" /\ sub'[i].pc = "done"
          /\ sub'[i].outcome = "409")
       => sub'[i].retryAt =
            LastCompletionAt(sub[i].user, sub[i].action)
              + ActionTable[sub[i].action].cooldownSeconds]_vars

\* The specification's queue bound, which it leaves unnamed: the smallest
\* bound a queue can have.
QueueBound == 1

\* C22 -- Backpressure (the part that decides it): a subscriber's queue
\* never holds more events than its bound.
QueueBounded ==
  \A s \in Subscribers : Len(Queue(s)) <= QueueBound

\* The invocations of the middleware that have ended.
LimitDone == {k \in LimitSlots : limiter.req[k].pc = "done"}

\* C23 as stated -- Rate limit: within one 60-second window that starts at
\* the user's first counted request, at most 10 of the user's requests reach
\* the handler.
RateLimitAlways ==
  limiter.through <= Limit

\* C23 -- Rate limit, while the counter store answers: within one window
\* that starts at the user's first counted request, at most 10 requests
\* pass the limit test, and a request whose increment was answered is
\* turned away with 429 exactly when its count is above 10.
RateLimit ==
  /\ limiter.admitted <= Limit
  /\ \A k \in LimitDone :
       (~limiter.req[k].failed /\ limiter.req[k].out # "none")
       => (limiter.req[k].out = "429" <=> limiter.req[k].count > Limit)

\* Ten requests of one window were passed and the eleventh was answered
\* 429.
RateLimitWitness ==
  /\ limiter.admitted = Limit
  /\ InWindow(limiter)
  /\ \E k \in LimitDone :
       /\ limiter.req[k].count = Limit + 1
       /\ limiter.req[k].out = "429"

\* C24 -- Rate limiting fails open: a request during whose check a call to
\* the counter store threw (the increment or the setting of the expiry) is
\* passed on to the handler and is never answered 429.
FailsOpen ==
  \A k \in LimitDone :
    limiter.req[k].failed => limiter.req[k].out = "next"

\* The user is over the limit, and a request whose increment threw was
\* passed on.
FailsOpenWitness ==
  /\ limiter.count > Limit
  /\ \E k \in LimitDone :
       /\ limiter.req[k].failed
       /\ limiter.req[k].count = 0
       /\ limiter.req[k].out = "next"

\* C29 -- A rate-limited user is eventually allowed again: the counter
\* ratelimit:{userId}, whenever it exists and no invocation is between its
\* increment and its expire call, has an expiry set, also after an expire
\* call that failed or a process that stopped between the two calls.
CounterExpires ==
  (limiter.count > 0 /\ \A k \in LimitSlots : limiter.req[k].pc # "expire")
  => limiter.ttl # -1

\* 1 + 2 + ... + n when n >= 1, n + (n+1) + ... + 1 when n < 1.
RECURSIVE SumBetween(_, _)
SumBetween(lo, hi) == IF lo > hi THEN 0 ELSE lo + SumBetween(lo + 1, hi)
SumToN(n) == IF n >= 1 THEN SumBetween(1, n) ELSE SumBetween(n, 1)

\* C25 -- For every integer n, sum_to_n_a(n), sum_to_n_b(n) and
\* sum_to_n_c(n) return the same value, and that value is 1+2+...+n when
\* n >= 1 and n+(n+1)+...+1 when n < 1.
SameSum ==
  summing.pc = "done" =>
    /\ ~summing.thrown
    /\ summing.a = SumToN(summing.n)
    /\ summing.b = SumToN(summing.n)
    /\ summing.c = SumToN(summing.n)

\* |n - 1|
Distance(n) == IF n >= 1 THEN n - 1 ELSE 1 - n

\* C30 -- sum_to_n_b terminates for every integer n: each recursive call
\* moves n one step closer to 1 and the recursion stops at n = 1 after
\* |n - 1| calls.
RecursionReachesOne ==
  /\ summing.pc = "b_call" =>
       Distance(summing.arg) + summing.calls = Distance(summing.n)
  /\ summing.pc \in {"c", "done"} =>
       (~summing.thrown /\ summing.calls = Distance(summing.n))

\* The controller calls that have ended.
CallsDone == {k \in Calls : crud.call[k].pc = "done"}

\* C26 -- getResource, updateResource and deleteResource called with an id
\* that matches no stored resource answer 404 (500 when the lookup itself
\* fails) and leave the set of stored resources unchanged.
NotFoundAnswer ==
  [][\A k \in Calls :
       LET c == crud.call[k] IN
       ( /\ c.pc = "find"
         /\ c.op \in {"get", "update", "delete"}
         /\ Matching(c.id) = {}
         /\ crud'.call[k] # c )
       => /\ crud'.call[k].pc = "done"
          /\ crud'.call[k].out \in {"404", "500"}
          /\ crud'.rows = crud.rows
          /\ crud'.nextId = crud.nextId]_vars

\* A resource is stored, and an update and a delete with ids that match
\* none were answered 404.
NotFoundAnswerWitness ==
  /\ crud.rows # {}
  /\ \E j, k \in CallsDone :
       /\ crud.call[j].op = "update" /\ crud.call[j].out = "404"
       /\ crud.call[k].op = "delete" /\ crud.call[k].out = "404"
       /\ Matching(crud.call[j].id) = {}
       /\ Matching(crud.call[k].id) = {}

\* C27 -- Partial update: the save of updateResource changes only the
\* fields present in the request body: a field omitted from the body keeps
\* its stored value, the id does not change and no other resource is
\* modified.
PartialUpdate ==
  [][\A k \in Calls :
       LET c == crud.call[k] IN
       ( /\ c.pc = "save" /\ c.op = "update"
         /\ crud'.call[k].out = "200"
         /\ Matching(c.id) # {} )
       => LET old == CHOOSE r \in Matching(c.id) : TRUE IN
          \E new \in crud'.rows :
            /\ new.id = old.id
            /\ crud'.rows \ {new} = crud.rows \ {old}
            /\ c.name = Absent => new.name = old.name
            /\ c.description = Absent =>
                 new.description = old.description]_vars

\* C28 -- Cache convergence: once every completeAction call of a user has
\* finished, the value cached under user:{userId}:score, if the key is
\* present, is the user's committed total_score: the cache does not end up
\* with an older score than the database.
CacheConverges ==
  \A u \in Users :
    ArrivedOf(u) \subseteq Finished
    => (cacheScore[u] = -1 \/ cacheScore[u] = total_score[u])
====
